---- MODULE Spec2Model ----
(***************************************************************************)
(* Hatchmark: registration of image fingerprints in the DynamoDB ledger    *)
(* (ledger_handler, dynamodb_write_handler, write_to_ledger) and the SQS   *)
(* watermark worker (watermarker/main.py and watermarker/main-new.py).     *)
(*                                                                         *)
(* The store is modelled as linearizable: every query, put_item, get_item  *)
(* and update_item is one atomic step, and the handlers are interleaved    *)
(* between their store calls.                                              *)
(***************************************************************************)
EXTENDS Naturals, Sequences, FiniteSets, TLC

\* ------------------------------------------------------------------ bounds
NumReg == 2          \* registration invocations
NumPipelineReg == 1  \* of them, invocations feeding the worker pipeline
NumWorkers == 2      \* worker threads of the pool
MaxJobs == 1         \* jobs sent by a producer other than write_to_ledger
MaxFaults == 1       \* injected I/O faults (store, blob, embed, queue)
MaxReceive == 2      \* the queue's maximum receive count before dead-lettering
MaxRequests == 4     \* requests served by the development server
MaxPresigned == 2    \* upload URLs requested from generate_presigned_url

Regs == 1..NumReg
Workers == 1..NumWorkers

\* ------------------------------------------------------------ object keys
\* An object key is kept as its '/'-separated directory segments and the
\* '.'-separated parts of its last segment.
Key(dirs, file) == [dirs |-> dirs, file |-> file]

Keys ==
  { Key(<<"uploads", "a1">>, <<"x", "png">>),
    Key(<<"uploads", "a2">>, <<"x", "jpg">>),
    Key(<<>>, <<"y">>) }

RECURSIVE JoinDot(_)
JoinDot(parts) ==
  IF Len(parts) = 1 THEN parts[1]
  ELSE parts[1] \o "." \o JoinDot(Tail(parts))

\* object_key.split('/')
SplitSlash(k) == k.dirs \o <<JoinDot(k.file)>>

\* '.' in object_key
HasDot(k) == Len(k.file) > 1

\* object_key.split('.')[-1] if '.' in object_key else <default>
FileExtension(k, default) ==
  IF HasDot(k) THEN k.file[Len(k.file)] ELSE default

\* f"watermarked/{asset_id}.{file_extension}"
OutputKey(assetId, k, default) ==
  "watermarked/" \o assetId \o "." \o FileExtension(k, default)

\* ----------------------------------------------------------- fingerprints
\* str(imagehash.phash(image, hash_size=n)) is a string of n*n/4 hexadecimal
\* digits; the model keeps a hex string as the sequence of its digits.
HashSize == 16          \* hashing_handler, verification_handler: 256 bits
DefaultHashSize == 8    \* imagehash's default, used by the callers without hash_size

HexLen(hash_size) == (hash_size * hash_size) \div 4

\* the hex string of `len` digits whose first k digits are 4 and the others 5:
\* two such strings of one length differ in as many bits as their k differ
Pattern(len, k) == [i \in 1..len |-> IF i <= k THEN 4 ELSE 5]

\* An image, as far as the pipeline looks at it: its colour mode and the two
\* sign patterns phash derives from its content (8x8 and 16x16).
Image(mode, j, k) ==
  [mode |-> mode, lo |-> Pattern(HexLen(DefaultHashSize), j),
   hi |-> Pattern(HexLen(HashSize), k)]

ImgQ == Image("RGB", 0, 0)
ImgA == Image("RGBA", 3, 38)
ImgB == Image("RGB", 1, 5)
Images == {ImgQ, ImgA, ImgB}

\* image.convert('RGB') when image.mode != 'RGB'
ConvertRGB(img) == IF img.mode # "RGB" THEN [img EXCEPT !.mode = "RGB"] ELSE img

\* str(imagehash.phash(image, hash_size)): phash reduces the image to
\* greyscale itself, so the colour mode does not enter the digits
Phash(img, hash_size) == IF hash_size = DefaultHashSize THEN img.lo ELSE img.hi

\* the perceptualHash values of the registration events
Hashes == {Phash(ConvertRGB(i), HashSize) : i \in {ImgQ, ImgB}}

\* str(uuid.uuid4()): a value no other call and no object key produces
Uuid(r) == "u" \o ToString(r)

\* the asset id taken from the directory that holds the file
AssetIdOfParent(k, r) ==
  IF Len(k.dirs) >= 1 THEN k.dirs[Len(k.dirs)] ELSE Uuid(r)

\* asset_id = object_key.split('/')[1], uuid4 on IndexError
AssetIdOfKey(k, r) ==
  IF Len(SplitSlash(k)) >= 2 THEN SplitSlash(k)[2] ELSE Uuid(r)

Absent == "-"
NoKey == Key(<<>>, <<>>)
NoHash == <<>>

\* ------------------------------------------------------------------ state
VARIABLES
  ledger,    \* the assets table: assetId -> item
  reg,       \* the registration invocations
  queue,     \* the watermark queue: message id -> message
  dlq,       \* ids of the messages moved to the dead-letter queue
  blobs,     \* the processed bucket: output key -> object
  wrk,       \* the worker threads
  impl,      \* the worker program deployed: main.py or main-new.py
  faults,    \* I/O faults injected so far
  jobs,      \* jobs sent by the other producer so far
  ver,       \* the invocations of the lookup handlers
  mock_uploads, \* local_dev_server: upload id -> upload record
  mock_assets,  \* local_dev_server: fingerprint -> asset record
  uploads_dir,  \* local_dev_server: the files of /tmp/hatchmark-uploads
  http,         \* local_dev_server: the requests served and the last response
  presigned,    \* generate_presigned_url: the responses returned so far
  poller        \* the worker's main thread in poll_sqs_messages

\* the state of the development server
dev == <<mock_uploads, mock_assets, uploads_dir, http>>

vars ==
  <<ledger, reg, queue, dlq, blobs, wrk, impl, faults, jobs, ver, dev, presigned,
    poller>>

Handlers == {"ledger_handler", "dynamodb_write_handler", "write_to_ledger"}

\* An item of the assets table. An attribute the item does not have is Absent
\* (NoKey for the object key, 0 for the timestamps).
Item(a, f, k, st, ts) ==
  [assetId |-> a, perceptualHash |-> f, objectKey |-> k, status |-> st,
   timestamp |-> ts, lastUpdated |-> 0, watermarkedKey |-> Absent,
   error |-> Absent]

\* table.query(IndexName='PerceptualHashIndex', perceptualHash = :hash)
QueryByHash(f) == {a \in DOMAIN ledger : ledger[a].perceptualHash = f}

\* table.put_item(Item=item)
PutItem(item) ==
  [a \in DOMAIN ledger \cup {item.assetId} |->
     IF a = item.assetId THEN item ELSE ledger[a]]

\* a put_item without its ConditionExpression
NoCondition(a) == TRUE

\* attribute_not_exists(assetId)
AttributeNotExists(a) == a \notin DOMAIN ledger

IdleReg ==
  [pc |-> "idle", handler |-> Absent, key |-> NoKey, hash |-> NoHash,
   assetId |-> Absent, status |-> Absent, isDuplicate |-> FALSE,
   resAsset |-> Absent, ccf |-> FALSE, after |-> {}]

IdleWorker ==
  [pc |-> "poll", msg |-> 0, handle |-> 0, fields |-> {},
   assetId |-> Absent, objectKey |-> NoKey, data |-> Absent, failed |-> {}]

NoImage == [mode |-> Absent, lo |-> NoHash, hi |-> NoHash]

LookupHandlers == {"duplicate_check_handler", "verification_handler"}

\* the body of a lookup's response; confidence is counted in 256ths
Response(code, match, type, a, d, conf) ==
  [statusCode |-> code, match |-> match, matchType |-> type, assetId |-> a,
   hammingDistance |-> d, confidence |-> conf]

\* The invocation of a lookup handler and its response. `snap` remembers the
\* assetIds of the table the exact query read, `stable` that the scan read
\* the same table, `scanned` the number of items in the page of the scan.
IdleLookup ==
  [pc |-> "idle", handler |-> Absent, image |-> NoImage, hash |-> NoHash,
   snap |-> {}, stable |-> TRUE, scanned |-> 0,
   resp |-> Response(0, FALSE, Absent, Absent, 0, 0)]

\* local_dev_server before its first request: n counts the requests served,
\* now is the clock read by the last one
NoResponse ==
  [n |-> 0, now |-> 0, route |-> Absent, code |-> 0, assetId |-> Absent]

Init ==
  /\ ver = IdleLookup
  /\ ledger = <<>>
  /\ reg = [r \in Regs |-> IdleReg]
  /\ queue = <<>>
  /\ dlq = {}
  /\ blobs = <<>>
  /\ wrk = [w \in Workers |-> IdleWorker]
  /\ impl \in {"main", "main_new"}
  /\ faults = 0
  /\ jobs = 0
  /\ mock_uploads = <<>>
  /\ mock_assets = <<>>
  /\ uploads_dir = <<>>
  /\ http = NoResponse
  /\ presigned = <<>>
  /\ poller = [pc |-> "poll", tasks |-> {}, futures |-> {}]

Fault == faults < MaxFaults /\ faults' = faults + 1

Return(r, st, dup, a) ==
  [reg EXCEPT ![r].pc = "done", ![r].status = st, ![r].isDuplicate = dup,
              ![r].resAsset = a]

\* ------------------------------------------------- registration: the event
\* One invocation of a registration handler with the event of the hashing
\* step. `after` remembers the invocations that had returned before it began.
Invoke(r, h, k, f) ==
  /\ reg[r].pc = "idle"
  /\ reg' = [reg EXCEPT ![r] =
       [IdleReg EXCEPT
          !.pc = IF h = "write_to_ledger" THEN "put" ELSE "query",
          !.handler = h, !.key = k, !.hash = f,
          !.assetId = IF h = "ledger_handler" THEN AssetIdOfKey(k, r) ELSE Uuid(r),
          !.after = {q \in Regs : reg[q].pc \in {"done", "raised"}}]]
  /\ UNCHANGED <<ledger, queue, dlq, blobs, wrk, impl, faults, jobs, ver, dev, presigned, poller>>

\* ---------------------------------- ledger_handler.lambda_handler
LedgerQuery(r) ==
  /\ reg[r].pc = "query" /\ reg[r].handler = "ledger_handler"
  /\ IF QueryByHash(reg[r].hash) # {}
       THEN \E e \in QueryByHash(reg[r].hash) :
              reg' = Return(r, "DUPLICATE_DETECTED", TRUE, e)
       ELSE reg' = [reg EXCEPT ![r].pc = "put"]
  /\ UNCHANGED <<ledger, queue, dlq, blobs, wrk, impl, faults, jobs, ver, dev, presigned, poller>>

\* ClientError of the query: logged, registration continues
LedgerQueryError(r) ==
  /\ reg[r].pc = "query" /\ reg[r].handler = "ledger_handler"
  /\ Fault
  /\ reg' = [reg EXCEPT ![r].pc = "put"]
  /\ UNCHANGED <<ledger, queue, dlq, blobs, wrk, impl, jobs, ver, dev, presigned, poller>>

LedgerItem(r) ==
  Item(reg[r].assetId, reg[r].hash, reg[r].key, "REGISTERED", r)

LedgerPut(r) ==
  /\ reg[r].pc = "put" /\ reg[r].handler = "ledger_handler"
  /\ IF AttributeNotExists(reg[r].assetId)
       THEN /\ ledger' = PutItem(LedgerItem(r))
            /\ reg' = Return(r, "REGISTERED", FALSE, reg[r].assetId)
       ELSE /\ ledger' = ledger
            /\ reg' = [reg EXCEPT ![r].pc = "get", ![r].ccf = TRUE]
  /\ UNCHANGED <<queue, dlq, blobs, wrk, impl, faults, jobs, ver, dev, presigned, poller>>

\* any other ClientError of put_item is raised
LedgerPutError(r) ==
  /\ reg[r].pc = "put" /\ reg[r].handler = "ledger_handler"
  /\ Fault
  /\ reg' = [reg EXCEPT ![r].pc = "raised"]
  /\ UNCHANGED <<ledger, queue, dlq, blobs, wrk, impl, jobs, ver, dev, presigned, poller>>

\* ConditionalCheckFailedException: fetch the existing item
LedgerGet(r) ==
  /\ reg[r].pc = "get"
  /\ reg' = IF reg[r].assetId \in DOMAIN ledger
              THEN Return(r, "ALREADY_EXISTS", FALSE, reg[r].assetId)
              ELSE Return(r, "REGISTERED", FALSE, reg[r].assetId)
  /\ UNCHANGED <<ledger, queue, dlq, blobs, wrk, impl, faults, jobs, ver, dev, presigned, poller>>

\* ---------------------------------- dynamodb_write_handler.lambda_handler
\* a duplicate hash: the response carries the new uuid and no status
WriteQuery(r) ==
  /\ reg[r].pc = "query" /\ reg[r].handler = "dynamodb_write_handler"
  /\ reg' = IF QueryByHash(reg[r].hash) # {}
              THEN Return(r, Absent, TRUE, reg[r].assetId)
              ELSE [reg EXCEPT ![r].pc = "put"]
  /\ UNCHANGED <<ledger, queue, dlq, blobs, wrk, impl, faults, jobs, ver, dev, presigned, poller>>

\* any exception of the query: logged, the item is stored
WriteQueryError(r) ==
  /\ reg[r].pc = "query" /\ reg[r].handler = "dynamodb_write_handler"
  /\ Fault
  /\ reg' = [reg EXCEPT ![r].pc = "put"]
  /\ UNCHANGED <<ledger, queue, dlq, blobs, wrk, impl, jobs, ver, dev, presigned, poller>>

WriteItem(r) ==
  Item(reg[r].assetId, reg[r].hash, reg[r].key, "PROCESSING", r)

WritePut(r) ==
  /\ reg[r].pc = "put" /\ reg[r].handler = "dynamodb_write_handler"
  /\ ledger' = PutItem(WriteItem(r))
  /\ reg' = Return(r, Absent, FALSE, reg[r].assetId)
  /\ UNCHANGED <<queue, dlq, blobs, wrk, impl, faults, jobs, ver, dev, presigned, poller>>

WritePutError(r) ==
  /\ reg[r].pc = "put" /\ reg[r].handler = "dynamodb_write_handler"
  /\ Fault
  /\ reg' = [reg EXCEPT ![r].pc = "raised"]
  /\ UNCHANGED <<ledger, queue, dlq, blobs, wrk, impl, jobs, ver, dev, presigned, poller>>

\* ---------------------------------- handlers.write_to_ledger
\* A message of the queue. `fields` are the keys of its JSON body, rc counts
\* its receives (the latest receipt handle), visible tells if it can be received.
Message(a, k, fields) ==
  [assetId |-> a, objectKey |-> k, fields |-> fields, rc |-> 0,
   visible |-> TRUE]

\* sqs.send_message
SendMessage(id, m) ==
  [i \in DOMAIN queue \cup {id} |-> IF i = id THEN m ELSE queue[i]]

LedgerJobFields ==
  {"assetId", "objectKey", "bucketName", "perceptualHash", "timestamp"}

WtlItem(r) ==
  Item(reg[r].assetId, reg[r].hash, reg[r].key, "REGISTERED", r)

WtlPut(r) ==
  /\ reg[r].pc = "put" /\ reg[r].handler = "write_to_ledger"
  /\ ledger' = PutItem(WtlItem(r))
  /\ reg' = [reg EXCEPT ![r].pc = "send"]
  /\ UNCHANGED <<queue, dlq, blobs, wrk, impl, faults, jobs, ver, dev, presigned, poller>>

WtlPutError(r) ==
  /\ reg[r].pc = "put" /\ reg[r].handler = "write_to_ledger"
  /\ Fault
  /\ reg' = [reg EXCEPT ![r].pc = "raised"]
  /\ UNCHANGED <<ledger, queue, dlq, blobs, wrk, impl, jobs, ver, dev, presigned, poller>>

WtlSend(r) ==
  /\ reg[r].pc = "send"
  /\ queue' = SendMessage(r, Message(reg[r].assetId, reg[r].key, LedgerJobFields))
  /\ reg' = Return(r, "REGISTERED", FALSE, reg[r].assetId)
  /\ UNCHANGED <<ledger, dlq, blobs, wrk, impl, faults, jobs, ver, dev, presigned, poller>>

\* a failed send that rolls the insert back
WtlSendRollback(r) ==
  /\ reg[r].pc = "send"
  /\ Fault
  /\ ledger' = [a \in DOMAIN ledger \ {reg[r].assetId} |-> ledger[a]]
  /\ reg' = [reg EXCEPT ![r].pc = "raised"]
  /\ UNCHANGED <<queue, dlq, blobs, wrk, impl, jobs, ver, dev, presigned, poller>>

\* send_message raises: the error is raised to the caller, the item stays
WtlSendError(r) ==
  /\ reg[r].pc = "send"
  /\ Fault
  /\ reg' = [reg EXCEPT ![r].pc = "raised"]
  /\ UNCHANGED <<ledger, queue, dlq, blobs, wrk, impl, jobs, ver, dev, presigned, poller>>

\* ---------------------------------- a producer of jobs in the worker's format
\* main-new.py's process_file reads assetId, bucket and objectKey from the body.
WorkerJobFields == {"assetId", "bucket", "objectKey"}

JobAssetIds == {"a1", Uuid(1)}
JobKeys == {k \in Keys : HasDot(k) /\ k.file[2] = "png"}

\* a uuid4 is known to the producer once its record is in the table
SendJob(a, k) ==
  /\ jobs < MaxJobs
  /\ a \in {Uuid(r) : r \in Regs} => a \in DOMAIN ledger
  /\ jobs' = jobs + 1
  /\ queue' = SendMessage(NumReg + jobs + 1, Message(a, k, WorkerJobFields))
  /\ UNCHANGED <<ledger, reg, dlq, blobs, wrk, impl, faults, ver, dev, presigned, poller>>

\* ---------------------------------- the queue (SQS)
\* receive_message: the message is hidden and gets a new receipt handle
Receive(w, m) ==
  /\ wrk[w].pc = "poll"
  /\ m \in DOMAIN queue /\ queue[m].visible
  /\ queue' = [queue EXCEPT ![m].visible = FALSE, ![m].rc = @ + 1]
  /\ wrk' = [wrk EXCEPT ![w] =
       [IdleWorker EXCEPT !.pc = "parse", !.msg = m, !.handle = queue[m].rc + 1,
                          !.fields = queue[m].fields,
                          !.assetId = queue[m].assetId,
                          !.objectKey = queue[m].objectKey]]
  /\ UNCHANGED <<ledger, reg, dlq, blobs, impl, faults, jobs, ver, dev, presigned, poller>>

\* the visibility timeout of a received message ends: it is visible again, or
\* dead-lettered once it was received the maximum number of times
VisibilityTimeout(m) ==
  /\ m \in DOMAIN queue /\ ~queue[m].visible
  /\ IF queue[m].rc >= MaxReceive
       THEN /\ queue' = [i \in DOMAIN queue \ {m} |-> queue[i]]
            /\ dlq' = dlq \cup {m}
       ELSE /\ queue' = [queue EXCEPT ![m].visible = TRUE]
            /\ dlq' = dlq
  /\ UNCHANGED <<ledger, reg, blobs, wrk, impl, faults, jobs, ver, dev, presigned, poller>>

\* ---------------------------------- HatchmarkWatermarker.update_asset_status
\* a put_item of the status attributes in the place of the update
ReplaceItem(a, st, wkey, err) ==
  PutItem([Item(a, NoHash, NoKey, st, 0) EXCEPT
             !.lastUpdated = 1, !.watermarkedKey = wkey, !.error = err])

\* update_item with SET: creates the item when the key has none
UpdateItem(a, st, wkey, err) ==
  LET old == IF a \in DOMAIN ledger THEN ledger[a]
             ELSE Item(a, NoHash, NoKey, Absent, 0)
      new == [old EXCEPT !.status = st, !.lastUpdated = 1,
                         !.watermarkedKey = IF wkey = Absent THEN @ ELSE wkey,
                         !.error = IF err = Absent THEN @ ELSE err]
  IN  PutItem(new)

\* ---------------------------------- HatchmarkWatermarker.process_file
RequiredFields ==
  IF impl = "main" THEN {"assetId", "objectKey"}
  ELSE {"assetId", "bucket", "objectKey"}

DefaultExtension == IF impl = "main" THEN "png" ELSE "jpg"

\* read assetId, (bucket,) objectKey from the body of the received message;
\* a missing field raises ValueError
Parse(w) ==
  /\ wrk[w].pc = "parse"
  /\ wrk' = IF RequiredFields \subseteq wrk[w].fields
              THEN [wrk EXCEPT ![w].pc = IF impl = "main" THEN "download"
                                         ELSE "watermarking"]
              ELSE [wrk EXCEPT ![w].pc = "except", ![w].failed = @ \cup {"parse"}]
  /\ UNCHANGED <<ledger, reg, queue, dlq, blobs, impl, faults, jobs, ver, dev, presigned, poller>>

\* main-new.py: update_asset_status(asset_id, 'WATERMARKING')
MarkWatermarking(w) ==
  /\ wrk[w].pc = "watermarking"
  /\ ledger' = UpdateItem(wrk[w].assetId, "WATERMARKING", Absent, Absent)
  /\ wrk' = [wrk EXCEPT ![w].pc = "download"]
  /\ UNCHANGED <<reg, queue, dlq, blobs, impl, faults, jobs, ver, dev, presigned, poller>>

\* update_item fails: update_asset_status logs the error and returns
MarkWatermarkingError(w) ==
  /\ wrk[w].pc = "watermarking"
  /\ Fault
  /\ wrk' = [wrk EXCEPT ![w].pc = "download", ![w].failed = @ \cup {"update"}]
  /\ UNCHANGED <<ledger, reg, queue, dlq, blobs, impl, jobs, ver, dev, presigned, poller>>

\* s3_client.get_object
Download(w) ==
  /\ wrk[w].pc = "download"
  /\ wrk' = [wrk EXCEPT ![w].pc = "embed", ![w].data = "original"]
  /\ UNCHANGED <<ledger, reg, queue, dlq, blobs, impl, faults, jobs, ver, dev, presigned, poller>>

DownloadError(w) ==
  /\ wrk[w].pc = "download"
  /\ Fault
  /\ wrk' = [wrk EXCEPT ![w].pc = "except", ![w].failed = @ \cup {"download"}]
  /\ UNCHANGED <<ledger, reg, queue, dlq, blobs, impl, jobs, ver, dev, presigned, poller>>

\* apply_steganography_watermark / apply_invisible_watermark
Embed(w) ==
  /\ wrk[w].pc = "embed"
  /\ wrk' = [wrk EXCEPT ![w].pc = "upload", ![w].data = "watermarked"]
  /\ UNCHANGED <<ledger, reg, queue, dlq, blobs, impl, faults, jobs, ver, dev, presigned, poller>>

\* the embed fails: main.py returns the original image, main-new.py raises
EmbedError(w) ==
  /\ wrk[w].pc = "embed"
  /\ Fault
  /\ wrk' = IF impl = "main"
              THEN [wrk EXCEPT ![w].pc = "upload", ![w].failed = @ \cup {"embed"}]
              ELSE [wrk EXCEPT ![w].pc = "except", ![w].failed = @ \cup {"embed"}]
  /\ UNCHANGED <<ledger, reg, queue, dlq, blobs, impl, jobs, ver, dev, presigned, poller>>

\* s3_client.put_object(Bucket=PROCESSED_BUCKET, Key=output_key, ...)
PutObject(key, a, data) ==
  [x \in DOMAIN blobs \cup {key} |->
     IF x = key THEN [assetId |-> a, data |-> data] ELSE blobs[x]]

Upload(w) ==
  /\ wrk[w].pc = "upload"
  /\ blobs' = PutObject(OutputKey(wrk[w].assetId, wrk[w].objectKey, DefaultExtension),
                        wrk[w].assetId, wrk[w].data)
  /\ wrk' = [wrk EXCEPT ![w].pc = IF impl = "main" THEN "delete" ELSE "completed"]
  /\ UNCHANGED <<ledger, reg, queue, dlq, impl, faults, jobs, ver, dev, presigned, poller>>

UploadError(w) ==
  /\ wrk[w].pc = "upload"
  /\ Fault
  /\ wrk' = [wrk EXCEPT ![w].pc = "except", ![w].failed = @ \cup {"upload"}]
  /\ UNCHANGED <<ledger, reg, queue, dlq, blobs, impl, jobs, ver, dev, presigned, poller>>

\* a COMPLETED update made only by the attempt that holds the job's latest
\* receipt handle
MarkCompletedByHolder(w) ==
  /\ wrk[w].pc = "completed"
  /\ ledger' =
       IF wrk[w].msg \in DOMAIN queue /\ queue[wrk[w].msg].rc = wrk[w].handle
         THEN UpdateItem(wrk[w].assetId, "COMPLETED",
                OutputKey(wrk[w].assetId, wrk[w].objectKey, DefaultExtension),
                Absent)
         ELSE ledger
  /\ wrk' = [wrk EXCEPT ![w].pc = "delete"]
  /\ UNCHANGED <<reg, queue, dlq, blobs, impl, faults, jobs, ver, dev, presigned, poller>>

\* main-new.py: update_asset_status(asset_id, 'COMPLETED', {watermarkedKey, ...})
MarkCompleted(w) ==
  /\ wrk[w].pc = "completed"
  /\ ledger' = UpdateItem(wrk[w].assetId, "COMPLETED",
                          OutputKey(wrk[w].assetId, wrk[w].objectKey, DefaultExtension),
                          Absent)
  /\ wrk' = [wrk EXCEPT ![w].pc = "delete"]
  /\ UNCHANGED <<reg, queue, dlq, blobs, impl, faults, jobs, ver, dev, presigned, poller>>

MarkCompletedError(w) ==
  /\ wrk[w].pc = "completed"
  /\ Fault
  /\ wrk' = [wrk EXCEPT ![w].pc = "delete", ![w].failed = @ \cup {"update"}]
  /\ UNCHANGED <<ledger, reg, queue, dlq, blobs, impl, jobs, ver, dev, presigned, poller>>

\* except Exception: main-new.py records FAILED, then both raise to
\* process_message, which logs and leaves the message in the queue
Except(w) ==
  /\ wrk[w].pc = "except"
  /\ ledger' = IF impl = "main" THEN ledger
                ELSE UpdateItem(wrk[w].assetId, "FAILED", Absent, "error")
  /\ wrk' = [wrk EXCEPT ![w] = IdleWorker]
  /\ UNCHANGED <<reg, queue, dlq, blobs, impl, faults, jobs, ver, dev, presigned, poller>>

\* main-new.py: the FAILED update fails too and is only logged
ExceptUpdateError(w) ==
  /\ wrk[w].pc = "except" /\ impl = "main_new"
  /\ Fault
  /\ wrk' = [wrk EXCEPT ![w] = IdleWorker]
  /\ UNCHANGED <<ledger, reg, queue, dlq, blobs, impl, jobs, ver, dev, presigned, poller>>

\* ---------------------------------- HatchmarkWatermarker.process_message
\* sqs_client.delete_message: removes the message if the handle is its latest
DeleteMessage(w) ==
  /\ wrk[w].pc = "delete"
  /\ LET m == wrk[w].msg IN
     queue' = IF m \in DOMAIN queue /\ queue[m].rc = wrk[w].handle
               THEN [i \in DOMAIN queue \ {m} |-> queue[i]]
               ELSE queue
  /\ wrk' = [wrk EXCEPT ![w] = IdleWorker]
  /\ UNCHANGED <<ledger, reg, dlq, blobs, impl, faults, jobs, ver, dev, presigned, poller>>

\* delete_message raises: logged, the message stays in the queue
DeleteError(w) ==
  /\ wrk[w].pc = "delete"
  /\ Fault
  /\ wrk' = [wrk EXCEPT ![w] = IdleWorker]
  /\ UNCHANGED <<ledger, reg, queue, dlq, blobs, impl, jobs, ver, dev, presigned, poller>>

\* process_message from the first statement of process_file to its return
ProcessMessage(w) ==
  \/ Parse(w)
  \/ MarkWatermarking(w) \/ MarkWatermarkingError(w)
  \/ Download(w) \/ DownloadError(w)
  \/ Embed(w) \/ EmbedError(w)
  \/ Upload(w) \/ UploadError(w)
  \/ MarkCompleted(w) \/ MarkCompletedError(w)
  \/ Except(w) \/ ExceptUpdateError(w)
  \/ DeleteMessage(w) \/ DeleteError(w)

Work(w) ==
  \/ \E m \in DOMAIN queue : Receive(w, m)
  \/ ProcessMessage(w)

\* ================================================== the lookups by fingerprint
\* ---------------------------------- Hamming distance of two hex strings
\* the bits set in a hexadecimal digit
BitsOf(d) == {i \in 0..3 : (d \div (2^i)) % 2 = 1}

\* bin(int(q, 16) ^ int(s, 16)).count('1'): the number of bit positions in
\* which the two integers differ; digit i counts from the least significant
XorCount(q, s) ==
  LET lq == Len(q)
      ls == Len(s)
      n == IF lq > ls THEN lq ELSE ls
      qd(i) == IF i <= lq THEN q[lq + 1 - i] ELSE 0
      sd(i) == IF i <= ls THEN s[ls + 1 - i] ELSE 0
      differ == {i \in 1..n : qd(i) # sd(i)}
  IN  IF q = s THEN 0
      ELSE Cardinality({p \in differ \X (0..3) :
             (p[2] \in BitsOf(qd(p[1]))) # (p[2] \in BitsOf(sd(p[1])))})

\* imagehash: hex_to_hash(q) - hex_to_hash(s) is defined for hashes of one
\* shape only and raises TypeError otherwise
SameShape(q, s) == Len(q) = Len(s)

\* ---------------------------------- table.scan()
\* One call of scan returns one page: the items in the order of the store, cut
\* where the page is full. A page holds ScanPageItems items at least; how many
\* more fit depends on the sizes of the items. Neither handler asks for the
\* pages that follow. A page is kept as the sequence of its assetIds.
ScanPageItems == 1

Orders(S) ==
  {o \in [1..Cardinality(S) -> S] : \A x \in S : \E i \in DOMAIN o : o[i] = x}

PageLens ==
  LET n == Cardinality(DOMAIN ledger)
  IN  IF n <= ScanPageItems THEN {n} ELSE ScanPageItems..n

ScanPages ==
  {SubSeq(o, 1, n) : o \in Orders(DOMAIN ledger), n \in PageLens}

\* ---------------------------------- the responses
Respond(resp, page) ==
  [ver EXCEPT !.pc = "done", !.resp = resp, !.scanned = Len(page),
              !.stable = (DOMAIN ledger = ver.snap)]

ServerError == Response(500, FALSE, Absent, Absent, 0, 0)

\* ---------------------------------- duplicate_check_handler.lambda_handler
DuplicateThreshold == 5

DupInvoke(img) ==
  /\ ver.pc = "idle"
  /\ ver' = [ver EXCEPT !.pc = "query", !.handler = "duplicate_check_handler",
                         !.image = img, !.hash = Phash(img, DefaultHashSize)]
  /\ UNCHANGED <<ledger, reg, queue, dlq, blobs, wrk, impl, faults, jobs, dev, presigned, poller>>

\* the exact query on PerceptualHashIndex found item a
DupExact(a) == Response(200, TRUE, Absent, a, 0, 0)

DupQuery ==
  /\ ver.pc = "query" /\ ver.handler = "duplicate_check_handler"
  /\ IF QueryByHash(ver.hash) # {}
       THEN \E a \in QueryByHash(ver.hash) :
              ver' = [ver EXCEPT !.pc = "done", !.resp = DupExact(a),
                                 !.snap = DOMAIN ledger]
       ELSE ver' = [ver EXCEPT !.pc = "scan", !.snap = DOMAIN ledger]
  /\ UNCHANGED <<ledger, reg, queue, dlq, blobs, wrk, impl, faults, jobs, dev, presigned, poller>>

\* query or scan raises: the outer except answers 500
DupError ==
  /\ ver.pc \in {"query", "scan"} /\ ver.handler = "duplicate_check_handler"
  /\ Fault
  /\ ver' = Respond(ServerError, <<>>)
  /\ UNCHANGED <<ledger, reg, queue, dlq, blobs, wrk, impl, jobs, dev, presigned, poller>>

\* similar_assets: the items of the page within the threshold, in page order;
\* an item without perceptualHash or of another shape is skipped
DupSimilarAssets(page, q) ==
  SelectSeq(page, LAMBDA a :
    /\ ledger[a].perceptualHash # NoHash
    /\ SameShape(q, ledger[a].perceptualHash)
    /\ XorCount(q, ledger[a].perceptualHash) <= DuplicateThreshold)

\* existingAsset = similar_assets[0]
DupApprox(page, q) ==
  LET similar == DupSimilarAssets(page, q)
  IN  IF similar # <<>>
      THEN Response(200, TRUE, Absent, similar[1],
                    XorCount(q, ledger[similar[1]].perceptualHash), 0)
      ELSE Response(200, FALSE, Absent, Absent, 0, 0)

DupScan(page) ==
  /\ ver.pc = "scan" /\ ver.handler = "duplicate_check_handler"
  /\ ver' = Respond(DupApprox(page, ver.hash), page)
  /\ UNCHANGED <<ledger, reg, queue, dlq, blobs, wrk, impl, faults, jobs, dev, presigned, poller>>

\* ---------------------------------- verification_handler.lambda_handler
HashBits == 256          \* similarity = 1.0 - hamming_distance / 256.0
SimilarityPercent == 85  \* if similarity > 0.85

\* similarity, in 256ths
Similarity(d) == HashBits - d

\* similarity > 0.85
IsSimilar(d) == Similarity(d) * 100 > SimilarityPercent * HashBits

VerifyInvoke(img) ==
  /\ ver.pc = "idle"
  /\ ver' = [ver EXCEPT !.pc = "query", !.handler = "verification_handler",
                         !.image = img,
                         !.hash = Phash(ConvertRGB(img), HashSize)]
  /\ UNCHANGED <<ledger, reg, queue, dlq, blobs, wrk, impl, faults, jobs, dev, presigned, poller>>

\* the exact query found item a: confidence 1.0, matchType exact
VerifyExact(a) == Response(200, TRUE, "exact", a, 0, Similarity(0))

VerifyQuery ==
  /\ ver.pc = "query" /\ ver.handler = "verification_handler"
  /\ IF QueryByHash(ver.hash) # {}
       THEN \E a \in QueryByHash(ver.hash) :
              ver' = [ver EXCEPT !.pc = "done", !.resp = VerifyExact(a),
                                 !.snap = DOMAIN ledger]
       ELSE ver' = [ver EXCEPT !.pc = "scan", !.snap = DOMAIN ledger]
  /\ UNCHANGED <<ledger, reg, queue, dlq, blobs, wrk, impl, faults, jobs, dev, presigned, poller>>

\* ClientError of the query: 500
VerifyQueryError ==
  /\ ver.pc = "query" /\ ver.handler = "verification_handler"
  /\ Fault
  /\ ver' = Respond(ServerError, <<>>)
  /\ UNCHANGED <<ledger, reg, queue, dlq, blobs, wrk, impl, jobs, dev, presigned, poller>>

\* similar_assets: the items of the page with similarity > 0.85, in page order
VerifySimilarAssets(page, q) ==
  SelectSeq(page, LAMBDA a : IsSimilar(XorCount(q, ledger[a].perceptualHash)))

\* similar_assets.sort(key=similarity, reverse=True)[0]: the sort is stable,
\* so of the most similar items the first of the page comes first
BestMatch(similar, q) ==
  LET dist == [i \in DOMAIN similar |->
                 XorCount(q, ledger[similar[i]].perceptualHash)]
      best == CHOOSE i \in DOMAIN similar :
                /\ \A j \in DOMAIN similar : dist[i] <= dist[j]
                /\ \A j \in 1..(i - 1) : dist[j] > dist[i]
  IN  similar[best]

\* item['perceptualHash'] of an item that has none raises KeyError
ScanRaises(page) ==
  \E i \in DOMAIN page : ledger[page[i]].perceptualHash = NoHash

NotAuthentic == Response(200, FALSE, "none", Absent, 0, 0)

VerifyApprox(page, q) ==
  LET similar == VerifySimilarAssets(page, q)
      best == BestMatch(similar, q)
      d == XorCount(q, ledger[best].perceptualHash)
  IN  IF ~ScanRaises(page) /\ similar # <<>>
      THEN Response(200, TRUE, "similar", best, d, Similarity(d))
      ELSE NotAuthentic

VerifyScan(page) ==
  /\ ver.pc = "scan" /\ ver.handler = "verification_handler"
  /\ ver' = Respond(VerifyApprox(page, ver.hash), page)
  /\ UNCHANGED <<ledger, reg, queue, dlq, blobs, wrk, impl, faults, jobs, dev, presigned, poller>>

\* the scan raises: logged, the response is "no match"
VerifyScanError ==
  /\ ver.pc = "scan" /\ ver.handler = "verification_handler"
  /\ Fault
  /\ ver' = Respond(NotAuthentic, <<>>)
  /\ UNCHANGED <<ledger, reg, queue, dlq, blobs, wrk, impl, jobs, dev, presigned, poller>>

\* the images looked up
QueryImages == {ImgQ}

\* the whole handler against one state of the table: its possible responses
VerifyResponses(img) ==
  LET q == Phash(ConvertRGB(img), HashSize)
  IN  IF QueryByHash(q) # {}
      THEN {VerifyExact(a) : a \in QueryByHash(q)}
      ELSE {VerifyApprox(page, q) : page \in ScanPages}

Lookup ==
  \/ \E img \in QueryImages : DupInvoke(img) \/ VerifyInvoke(img)
  \/ DupQuery \/ DupError
  \/ VerifyQuery \/ VerifyQueryError \/ VerifyScanError
  \/ \E page \in ScanPages : DupScan(page) \/ VerifyScan(page)

Register(r) ==
  \/ \E h \in Handlers, k \in Keys, f \in Hashes : Invoke(r, h, k, f)
  \/ LedgerQuery(r) \/ LedgerQueryError(r) \/ LedgerPut(r)
  \/ LedgerPutError(r) \/ LedgerGet(r)
  \/ WriteQuery(r) \/ WriteQueryError(r) \/ WritePut(r) \/ WritePutError(r)
  \/ WtlPut(r) \/ WtlPutError(r) \/ WtlSend(r) \/ WtlSendError(r)

NextReg == \E r \in Regs : Register(r)

SpecReg == Init /\ [][NextReg]_vars

NextWorker ==
  \/ \E w \in Workers : Work(w)
  \/ \E m \in DOMAIN queue : VisibilityTimeout(m)
  \/ \E a \in JobAssetIds, k \in JobKeys : SendJob(a, k)

Next == NextReg \/ NextWorker

\* the deployed pipeline: write_to_ledger feeding the worker
NextPipeline ==
  \/ \E r \in 1..NumPipelineReg, k \in Keys, f \in Hashes :
       Invoke(r, "write_to_ledger", k, f)
  \/ \E r \in Regs : WtlPut(r) \/ WtlPutError(r) \/ WtlSend(r) \/ WtlSendError(r)
  \/ NextWorker

SpecWorker == Init /\ [][NextPipeline]_vars

Spec == Init /\ [][Next]_vars

\* The pipeline under fair scheduling: a worker thread that can take a step
\* (poll, a step of process_file, the delete) eventually takes one, and the
\* queue eventually ends the visibility timeout of a received message.
Fairness ==
  /\ \A w \in Workers : WF_vars(Work(w))
  /\ WF_vars(\E m \in DOMAIN queue : VisibilityTimeout(m))

FairWorker == SpecWorker /\ Fairness

\* the lookups beside the registrations that feed the table: hashing_handler
\* and ledger_handler (256 bits), compute_phash and write_to_ledger (64 bits)
LookupKeys == {k \in Keys : Len(k.dirs) > 0}

NextLookup ==
  \/ \E r \in Regs, k \in LookupKeys, img \in Images :
       \/ Invoke(r, "ledger_handler", k, Phash(ConvertRGB(img), HashSize))
       \/ Invoke(r, "write_to_ledger", k, Phash(img, DefaultHashSize))
  \/ \E r \in Regs : LedgerQuery(r) \/ LedgerPut(r) \/ LedgerGet(r)
  \/ \E r \in Regs : WtlPut(r) \/ WtlSend(r)
  \/ Lookup

\* no worker runs beside the lookups
InitLookup == Init /\ impl = "main_new"

SpecLookup == InitLookup /\ [][NextLookup]_vars

\* the lookups beside one registration and one main-new.py worker thread
\* processing a job that names an assetId without record
NextScan ==
  \/ \E k \in LookupKeys :
       \/ Invoke(1, "ledger_handler", k, Phash(ConvertRGB(ImgB), HashSize))
       \/ Invoke(1, "write_to_ledger", k, Phash(ImgB, DefaultHashSize))
  \/ LedgerQuery(1) \/ LedgerPut(1) \/ LedgerGet(1)
  \/ WtlPut(1) \/ WtlSend(1)
  \/ \E k \in JobKeys : SendJob("a1", k)
  \/ Work(1)
  \/ \E m \in DOMAIN queue : VisibilityTimeout(m)
  \/ Lookup

SpecScan == InitLookup /\ [][NextScan]_vars

\* ------------------------------------------------ local_dev_server (Flask)
\* The development server keeps its uploads and its ledger in two dicts of the
\* process. A request is served in one step; its inputs are the JSON body, the
\* query string or the bytes sent.
Filenames == {"", "a.png"}
DevKeys == {"", "uploads/a.png"}
Creators == {"anonymous"}

\* bytes that PIL does not decode
Undecodable == NoImage
Bytes == {ImgQ, ImgB, Undecodable}

UploadIds == {Uuid(i) : i \in 1..2}

\* f"hash_{hash(s) % 1000000:06d}": a digest of the string, not of the image
StrHash(s) == <<"hash_", s>>

\* the fingerprints a client names in a request body
DevHashes == {NoHash, Phash(ImgQ, DefaultHashSize), StrHash("uploads/a.png")}

\* the response: its route, its status code and the assetId of its body
Served(route, code, a) ==
  [n |-> http.n + 1, now |-> http.now, route |-> route, code |-> code,
   assetId |-> a]

\* dict[key] = value
SetItem(dict, key, value) ==
  [x \in DOMAIN dict \cup {key} |-> IF x = key THEN value ELSE dict[x]]

AssetRecord(a, name, f, k, st) ==
  [assetId |-> a, filename |-> name, perceptualHash |-> f, objectKey |-> k,
   status |-> st]

\* POST /uploads/initiate: the upload is recorded under a new uuid
initiate_upload(filename) ==
  /\ http.n < MaxRequests
  /\ IF filename = ""
       THEN /\ http' = Served("initiate_upload", 400, Absent)
            /\ UNCHANGED mock_uploads
       ELSE LET upload_id == Uuid(Cardinality(DOMAIN mock_uploads) + 1)
            IN  /\ mock_uploads' = SetItem(mock_uploads, upload_id,
                     [filename |-> filename, status |-> "initiated",
                      creator |-> Absent])
                /\ http' = Served("initiate_upload", 200, Absent)
  /\ UNCHANGED <<mock_assets, uploads_dir>>
  /\ UNCHANGED <<ledger, reg, queue, dlq, blobs, wrk, impl, faults, jobs, ver, presigned, poller>>

\* PUT /uploads/file/<upload_id>: the bytes are written to the upload's file
upload_file_local(upload_id, file_data) ==
  /\ http.n < MaxRequests
  /\ IF upload_id \notin DOMAIN mock_uploads
       THEN /\ http' = Served("upload_file_local", 404, Absent)
            /\ UNCHANGED <<mock_uploads, uploads_dir>>
       ELSE /\ uploads_dir' = SetItem(uploads_dir, upload_id, file_data)
            /\ mock_uploads' = [mock_uploads EXCEPT ![upload_id].status = "completed"]
            /\ http' = Served("upload_file_local", 200, Absent)
  /\ UNCHANGED mock_assets
  /\ UNCHANGED <<ledger, reg, queue, dlq, blobs, wrk, impl, faults, jobs, ver, presigned, poller>>

\* the upload's file is there and PIL decodes it
Decodable(upload_id) ==
  upload_id \in DOMAIN uploads_dir /\ uploads_dir[upload_id] # Undecodable

\* time.time() of a request: the clock never goes back
Clock == {http.now, http.now + 1}

\* asset_id = f"asset_{int(time.time())}_{upload_id[:8]}"
DevAssetId(now, upload_id) == "asset_" \o ToString(now) \o "_" \o upload_id

\* the fingerprint complete_upload registers: imagehash.phash of the file, or
\* the digest of object_key + creator when the file is missing or not decoded
RegisteredHash(upload_id, object_key, creator) ==
  IF Decodable(upload_id)
    THEN Phash(uploads_dir[upload_id], DefaultHashSize)
    ELSE StrHash(object_key \o creator)

\* POST /uploads/complete
complete_upload(upload_id, object_key, creator) ==
  /\ http.n < MaxRequests
  /\ IF upload_id \notin DOMAIN mock_uploads
       THEN /\ http' = Served("complete_upload", 404, Absent)
            /\ UNCHANGED <<mock_uploads, mock_assets>>
       ELSE \E now \in Clock :
              LET asset_id == DevAssetId(now, upload_id)
                  perceptual_hash == RegisteredHash(upload_id, object_key, creator)
              IN  /\ mock_uploads' = [mock_uploads EXCEPT
                       ![upload_id].status = "completed",
                       ![upload_id].creator = creator]
                  /\ mock_assets' = SetItem(mock_assets, perceptual_hash,
                       AssetRecord(asset_id, mock_uploads[upload_id].filename,
                                   perceptual_hash, object_key, "verified"))
                  /\ http' = [Served("complete_upload", 200, asset_id)
                                EXCEPT !.now = now]
  /\ UNCHANGED uploads_dir
  /\ UNCHANGED <<ledger, reg, queue, dlq, blobs, wrk, impl, faults, jobs, ver, presigned, poller>>

\* the input forms of /verify: the assetId of a GET, the file of a POST, the
\* hash or the objectKey of a POST's JSON body, or a body with neither
VerifyRequests ==
  [form : {"assetId"}, value : {"asset_1_u1", "a.png"}]
    \cup [form : {"file"}, value : Bytes]
    \cup [form : {"hash"}, value : DevHashes \ {NoHash}]
    \cup [form : {"objectKey"}, value : DevKeys \ {""}]
    \cup [form : {"none"}, value : {Absent}]

\* the assets a GET /verify?assetId= finds: by assetId or by a part of the
\* file name (here: the whole name)
FoundById(asset_id) ==
  {f \in DOMAIN mock_assets :
     mock_assets[f].assetId = asset_id \/ mock_assets[f].filename = asset_id}

\* GET and POST /verify
verify_asset(req) ==
  /\ http.n < MaxRequests
  /\ CASE req.form = "assetId" ->
            /\ \/ \E f \in FoundById(req.value) :
                    http' = Served("verify_asset", 200, mock_assets[f].assetId)
               \/ /\ FoundById(req.value) = {}
                  /\ http' = Served("verify_asset", 200, Absent)
            /\ UNCHANGED mock_assets
       [] req.form = "file" ->
            /\ http' =
                 IF req.value = Undecodable
                   THEN Served("verify_asset", 500, Absent)
                 ELSE IF Phash(req.value, DefaultHashSize) \in DOMAIN mock_assets
                   THEN Served("verify_asset", 200,
                          mock_assets[Phash(req.value, DefaultHashSize)].assetId)
                 ELSE Served("verify_asset", 200, Absent)
            /\ UNCHANGED mock_assets
       [] req.form = "hash" ->
            /\ http' = IF req.value \in DOMAIN mock_assets
                         THEN Served("verify_asset", 200, mock_assets[req.value].assetId)
                         ELSE Served("verify_asset", 200, Absent)
            /\ UNCHANGED mock_assets
       [] req.form = "objectKey" ->
            LET mock_hash == StrHash(req.value)
                asset_id == Uuid(http.n + 1)
            IN  /\ mock_assets' = SetItem(mock_assets, mock_hash,
                     AssetRecord(asset_id, "", mock_hash, req.value, "verified"))
                /\ http' = Served("verify_asset", 200, asset_id)
       [] OTHER ->
            /\ http' = Served("verify_asset", 400, Absent)
            /\ UNCHANGED mock_assets
  /\ UNCHANGED <<mock_uploads, uploads_dir>>
  /\ UNCHANGED <<ledger, reg, queue, dlq, blobs, wrk, impl, faults, jobs, ver, presigned, poller>>

\* POST /ledger: the record is stored under its fingerprint, unless that is empty
add_to_ledger(perceptualHash, objectKey) ==
  /\ http.n < MaxRequests
  /\ LET asset_id == Uuid(http.n + 1)
     IN  /\ mock_assets' =
               IF perceptualHash # NoHash
                 THEN SetItem(mock_assets, perceptualHash,
                        AssetRecord(asset_id, "", perceptualHash, objectKey,
                                    "registered"))
                 ELSE mock_assets
         /\ http' = Served("add_to_ledger", 200, asset_id)
  /\ UNCHANGED <<mock_uploads, uploads_dir>>
  /\ UNCHANGED <<ledger, reg, queue, dlq, blobs, wrk, impl, faults, jobs, ver, presigned, poller>>

NextDev ==
  \/ \E filename \in Filenames : initiate_upload(filename)
  \/ \E u \in UploadIds, file_data \in Bytes : upload_file_local(u, file_data)
  \/ \E u \in UploadIds, k \in DevKeys, c \in Creators : complete_upload(u, k, c)
  \/ \E req \in VerifyRequests : verify_asset(req)
  \/ \E f \in DevHashes, k \in DevKeys : add_to_ledger(f, k)

SpecDev == Init /\ [][NextDev]_vars

\* ------------------------------------------------ generate_presigned_url
\* The filename of a request, kept as an object key is: its '/'-separated
\* segments and the '.'-separated parts of the last one.
PresignFilenames ==
  { Key(<<>>, <<"x", "png">>), Key(<<"d">>, <<"x", "png">>),
    Key(<<>>, <<"x", "PNG">>), Key(<<>>, <<"x", "gif">>),
    Key(<<>>, <<" ">>), Key(<<>>, <<"">>) }

\* str.strip() and str.lower() on the strings of the filenames above
Strip(s) == IF s = " " THEN "" ELSE s
Lower(s) == IF s = "PNG" THEN "png" ELSE s

StripName(f) ==
  IF f.dirs = <<>> /\ Len(f.file) = 1 THEN Key(<<>>, <<Strip(f.file[1])>>) ELSE f

\* not filename or not filename.strip()
Blank(f) == f.dirs = <<>> /\ f.file = <<"">>

\* os.path.splitext(filename.lower())[1], without its dot
SplitExt(f) == IF HasDot(f) THEN Lower(f.file[Len(f.file)]) ELSE ""

AllowedExtensions == {"jpg", "jpeg", "png", "webp", "bmp", "tiff"}

PresignResponse(code, a, k) == [statusCode |-> code, assetId |-> a, objectKey |-> k]

\* lambda_handler: 400 for a missing filename or extension, else the upload
\* URL for uploads/{uuid4()}/{filename} and the uuid as assetId
generate_presigned_url(f) ==
  /\ Len(presigned) < MaxPresigned
  /\ LET filename == StripName(f)
         unique_id == Uuid(NumReg + Len(presigned) + 1)
         object_key == Key(<<"uploads", unique_id>> \o filename.dirs, filename.file)
     IN  presigned' = Append(presigned,
           IF Blank(filename) \/ SplitExt(filename) \notin AllowedExtensions
             THEN PresignResponse(400, Absent, NoKey)
             ELSE PresignResponse(200, unique_id, object_key))
  /\ UNCHANGED <<ledger, reg, queue, dlq, blobs, wrk, impl, faults, jobs, ver, dev, poller>>

\* s3_client.generate_presigned_url raises ClientError: 500
PresignError(f) ==
  /\ Len(presigned) < MaxPresigned
  /\ ~Blank(StripName(f)) /\ SplitExt(StripName(f)) \in AllowedExtensions
  /\ Fault
  /\ presigned' = Append(presigned, PresignResponse(500, Absent, NoKey))
  /\ UNCHANGED <<ledger, reg, queue, dlq, blobs, wrk, impl, jobs, ver, dev, poller>>

\* the object keys of the upload URLs issued so far
IssuedKeys ==
  {presigned[n].objectKey : n \in {i \in DOMAIN presigned : presigned[i].statusCode = 200}}

\* upload URLs are issued, and ledger_handler registers the objects uploaded
\* to them beside objects whose key was chosen elsewhere
NextUpload ==
  \/ \E f \in PresignFilenames : generate_presigned_url(f) \/ PresignError(f)
  \/ \E r \in Regs, k \in IssuedKeys \cup Keys, h \in Hashes :
       Invoke(r, "ledger_handler", k, h)
  \/ \E r \in Regs :
       \/ LedgerQuery(r) \/ LedgerQueryError(r)
       \/ LedgerPut(r) \/ LedgerPutError(r) \/ LedgerGet(r)

SpecUpload == Init /\ [][NextUpload]_vars

\* ------------------------------------------------ poll_sqs_messages
\* The main thread of the worker: it receives a batch, submits every message
\* to the pool and waits for the futures before it polls again. A task is a
\* received message with its receipt handle; `tasks` are the tasks no thread
\* has taken yet, `futures` the tasks of the batch still waited for.
MaxNumberOfMessages == 10

Task(m, h) ==
  [msg |-> m, handle |-> h, fields |-> queue[m].fields,
   assetId |-> queue[m].assetId, objectKey |-> queue[m].objectKey]

\* the future of task t is done: a thread took the task and returned from it
FutureDone(t) ==
  /\ t \notin poller.tasks
  /\ \A w \in Workers : ~(wrk[w].msg = t.msg /\ wrk[w].handle = t.handle)

\* receive_message returns visible messages, executor.submit for each
PollReceive ==
  /\ poller.pc = "poll"
  /\ \E batch \in SUBSET {m \in DOMAIN queue : queue[m].visible} :
       /\ batch # {} /\ Cardinality(batch) <= MaxNumberOfMessages
       /\ queue' = [m \in DOMAIN queue |->
            IF m \in batch
              THEN [queue[m] EXCEPT !.visible = FALSE, !.rc = @ + 1]
              ELSE queue[m]]
       /\ LET submitted == {Task(m, queue[m].rc + 1) : m \in batch}
          IN  poller' = [pc |-> "wait", tasks |-> poller.tasks \cup submitted,
                         futures |-> submitted]
  /\ UNCHANGED <<ledger, reg, dlq, blobs, wrk, impl, faults, jobs, ver, dev, presigned>>

\* receive_message raises: logged, time.sleep(10)
PollError ==
  /\ poller.pc = "poll"
  /\ Fault
  /\ poller' = [poller EXCEPT !.pc = "sleep"]
  /\ UNCHANGED <<ledger, reg, queue, dlq, blobs, wrk, impl, jobs, ver, dev, presigned>>

\* the polling error leaves the loop
PollRaise ==
  /\ poller.pc = "sleep"
  /\ poller' = [poller EXCEPT !.pc = "raised"]
  /\ UNCHANGED <<ledger, reg, queue, dlq, blobs, wrk, impl, faults, jobs, ver, dev, presigned>>

\* time.sleep(10) returns: the while loop tests shutdown_event and polls again
PollSleep ==
  /\ poller.pc = "sleep"
  /\ poller' = [poller EXCEPT !.pc = "poll"]
  /\ UNCHANGED <<ledger, reg, queue, dlq, blobs, wrk, impl, faults, jobs, ver, dev, presigned>>

\* a pool thread takes a submitted task and calls process_message
PoolTake(w, t) ==
  /\ wrk[w].pc = "poll"
  /\ t \in poller.tasks
  /\ poller' = [poller EXCEPT !.tasks = @ \ {t}]
  /\ wrk' = [wrk EXCEPT ![w] =
       [IdleWorker EXCEPT !.pc = "parse", !.msg = t.msg, !.handle = t.handle,
                          !.fields = t.fields, !.assetId = t.assetId,
                          !.objectKey = t.objectKey]]
  /\ UNCHANGED <<ledger, reg, queue, dlq, blobs, impl, faults, jobs, ver, dev, presigned>>

\* future.result(timeout=300) returned for every future of the batch
PollResults ==
  /\ poller.pc = "wait"
  /\ \A t \in poller.futures : FutureDone(t)
  /\ poller' = [poller EXCEPT !.pc = "poll", !.futures = {}]
  /\ UNCHANGED <<ledger, reg, queue, dlq, blobs, wrk, impl, faults, jobs, ver, dev, presigned>>

\* future.result(timeout=300) raises TimeoutError for a future that is not
\* done (a call of its task is slow, one of the injected faults): logged, the
\* loop goes on to the next future
FutureTimeout(t) ==
  /\ poller.pc = "wait"
  /\ t \in poller.futures /\ ~FutureDone(t)
  /\ Fault
  /\ poller' = [poller EXCEPT !.futures = @ \ {t}]
  /\ UNCHANGED <<ledger, reg, queue, dlq, blobs, wrk, impl, jobs, ver, dev, presigned>>

\* KeyboardInterrupt in the main thread: it leaves the loop, the executor
\* lets the pool finish the submitted tasks, run() sets shutdown_event
Shutdown ==
  /\ poller.pc # "stopped"
  /\ poller' = [poller EXCEPT !.pc = "stopped", !.futures = {}]
  /\ UNCHANGED <<ledger, reg, queue, dlq, blobs, wrk, impl, faults, jobs, ver, dev, presigned>>

\* the steps of the main thread that the program takes by itself
PollLoop == PollReceive \/ PollSleep \/ PollResults

\* the steps of one pool thread
PoolWork(w) ==
  \/ \E t \in poller.tasks : PoolTake(w, t)
  \/ ProcessMessage(w)

\* the worker as deployed: one polling thread and its pool, fed by
\* write_to_ledger and by a producer of jobs in the worker's format
PollKey == Key(<<"uploads", "a1">>, <<"x", "png">>)

NextPoll ==
  \/ Invoke(1, "write_to_ledger", PollKey, Phash(ImgB, DefaultHashSize))
  \/ WtlPut(1) \/ WtlSend(1)
  \/ SendJob("a1", PollKey)
  \/ PollLoop \/ PollError \/ Shutdown
  \/ \E t \in poller.futures : FutureTimeout(t)
  \/ \E w \in Workers : PoolWork(w)
  \/ \E m \in DOMAIN queue : VisibilityTimeout(m)

SpecPoll == Init /\ [][NextPoll]_vars

\* the main thread and every pool thread keep running; the queue ends the
\* visibility timeout of a received message
FairPoll ==
  /\ SpecPoll
  /\ WF_vars(PollLoop)
  /\ \A w \in Workers : WF_vars(PoolWork(w))
  /\ WF_vars(\E m \in DOMAIN queue : VisibilityTimeout(m))

\* ====================================================== registration claims
Done(r) == reg[r].pc = "done"
ByLedgerHandler(r) == reg[r].handler = "ledger_handler"

\* the items ledger_handler wrote (an item's timestamp names its writer)
LedgerHandlerItems ==
  {a \in DOMAIN ledger :
     ledger[a].timestamp \in Regs /\ ByLedgerHandler(ledger[a].timestamp)}

\* C1: with no I/O fault and under any interleaving of ledger_handler
\* registrations, the ledger holds at most one item per perceptualHash value.
C1_OneRecordPerHash ==
  faults = 0 =>
    \A a, b \in LedgerHandlerItems :
      ledger[a].perceptualHash = ledger[b].perceptualHash => a = b

\* C2: N ledger_handler registrations of one fingerprint, each from its own
\* upload key, end with exactly one REGISTERED and N-1 duplicate outcomes.
C2_ExactlyOneRegistered ==
  ( /\ faults = 0
    /\ \A r \in Regs : Done(r) /\ ByLedgerHandler(r)
    /\ \A r, q \in Regs : reg[r].hash = reg[q].hash
    /\ \A r, q \in Regs : r # q => reg[r].assetId # reg[q].assetId )
  => /\ Cardinality({r \in Regs : reg[r].status = "REGISTERED"}) = 1
     /\ \A r \in Regs : reg[r].status \in {"REGISTERED", "DUPLICATE_DETECTED"}

\* C3: a registration whose conditional insert reported that the item exists
\* (here: it lost the race to a registration of the same fingerprint) returns
\* DUPLICATE_DETECTED with isDuplicate true, for the item that won.
C3_ConflictIsDuplicate ==
  faults = 0 =>
    \A r \in Regs :
      ( /\ Done(r) /\ reg[r].ccf
        /\ reg[r].assetId \in DOMAIN ledger
        /\ ledger[reg[r].assetId].perceptualHash = reg[r].hash )
      =>
        /\ reg[r].status = "DUPLICATE_DETECTED"
        /\ reg[r].isDuplicate
        /\ reg[r].resAsset = reg[r].assetId

\* a conditional insert of ledger_handler completes in this step
PutStep(r) ==
  /\ reg[r].pc = "put" /\ ByLedgerHandler(r)
  /\ reg'[r].pc \in {"done", "get"}

C5_LaterRegistrationIsDuplicate ==
  faults = 0 =>
    \A r, q \in Regs :
      ( /\ Done(r) /\ Done(q) /\ r \in reg[q].after
        /\ reg[r].status = "REGISTERED" /\ reg[r].hash = reg[q].hash )
      => /\ reg[q].status = "DUPLICATE_DETECTED"
         /\ reg[q].resAsset = reg[r].resAsset
         /\ \A a \in DOMAIN ledger : ledger[a].timestamp # q
         /\ q \notin DOMAIN queue

\* ============================================================ worker claims
\* worker w's delete_message removes its message from the queue in this step
Acknowledges(w) ==
  /\ wrk[w].pc = "delete" /\ wrk'[w].pc = "poll"
  /\ wrk[w].msg \in DOMAIN queue /\ wrk[w].msg \notin DOMAIN queue'

HasItem(a) == a \in DOMAIN ledger

\* C6: whenever a worker acknowledges the job of assetId A (an asset with a
\* ledger item), the item has status COMPLETED and a processed-artifact
\* reference at that moment.
C6_AckOnlyWhenCompleted ==
  [][\A w \in Workers :
       Acknowledges(w) /\ HasItem(wrk[w].assetId) =>
         /\ ledger[wrk[w].assetId].status = "COMPLETED"
         /\ ledger[wrk[w].assetId].watermarkedKey # Absent]_vars

\* C7: a worker never acknowledges a job during an attempt in which a step
\* (parse, download, embed, upload, status update) failed.
C7_NoAckAfterFailedStep ==
  [][\A w \in Workers : Acknowledges(w) => wrk[w].failed = {}]_vars

\* C8: once the embed step of an attempt failed (for an asset with a ledger
\* item), the attempt stores no artifact, does not acknowledge the job, and
\* ends with the item FAILED.
C8_EmbedFailureIsFailed ==
  [][\A w \in Workers :
       ( /\ "embed" \in wrk[w].failed /\ wrk'[w] # wrk[w]
         /\ HasItem(wrk[w].assetId) )
       =>
         /\ blobs' = blobs
         /\ ~Acknowledges(w)
         /\ wrk'[w].pc = "poll" =>
               /\ wrk[w].assetId \in DOMAIN ledger'
               /\ ledger'[wrk[w].assetId].status = "FAILED"]_vars

\* C9: when download, embed or upload failed (for an asset with a ledger
\* item), the item is FAILED with error information at the moment the worker
\* gives the job up for redelivery.
C9_FailedBeforeRedelivery ==
  [][\A w \in Workers :
       ( /\ wrk[w].failed \cap {"download", "embed", "upload"} # {}
         /\ wrk[w].pc = "except" /\ wrk'[w].pc = "poll"
         /\ HasItem(wrk[w].assetId) )
       => /\ wrk[w].assetId \in DOMAIN ledger'
          /\ ledger'[wrk[w].assetId].status = "FAILED"
          /\ ledger'[wrk[w].assetId].error # Absent]_vars

\* process_file returns True in this step
Succeeds(w) == wrk[w].pc \in {"upload", "completed"} /\ wrk'[w].pc = "delete"

\* C10: when a redelivered job (received for at least the second time) has
\* been processed with no step failing, the artifact is stored under the key made of
\* the assetId and the source key's extension, and the item is COMPLETED.
C10_RedeliveryCompletes ==
  [][\A w \in Workers :
       ( /\ Succeeds(w) /\ wrk[w].failed = {}
         /\ wrk[w].handle >= 2 /\ HasItem(wrk[w].assetId) )
       =>
         /\ OutputKey(wrk[w].assetId, wrk[w].objectKey, DefaultExtension)
               \in DOMAIN blobs'
         /\ ledger'[wrk[w].assetId].status = "COMPLETED"]_vars

\* ===================================================== status-update claims
\* the item was written by a registration handler
Registered(a) == ledger[a].timestamp \in Regs

\* C11: an item carries a processed-artifact reference (watermarkedKey) only
\* while its status is COMPLETED, whatever was delivered, redelivered or failed.
C11_ProcessedRefOnlyWhenCompleted ==
  \A a \in DOMAIN ledger :
    Registered(a) /\ ledger[a].watermarkedKey # Absent
      => ledger[a].status = "COMPLETED"

\* C12: an item carries error information only while its status is FAILED; an
\* item that failed and was completed by a retry carries none.
C12_ErrorOnlyWhenFailed ==
  \A a \in DOMAIN ledger :
    Registered(a) /\ ledger[a].error # Absent => ledger[a].status = "FAILED"

\* C13: the set of assetIds in the ledger changes only in a step of a
\* registration; a status update for an assetId without item creates none.
C13_UpdateCreatesNoRecord ==
  [][DOMAIN ledger' # DOMAIN ledger => reg' # reg]_vars

\* the attributes a status update of worker w passes in additional_data
AdditionalData(w) ==
  IF wrk[w].pc = "completed" THEN {"watermarkedKey"}
  ELSE IF wrk[w].pc = "except" THEN {"error"}
  ELSE {}

\* the attributes of item a that differ after the step
Changed(a) ==
  {x \in DOMAIN ledger[a] : ledger'[a][x] # ledger[a][x]}

\* C14: a step of a worker keeps every item, and changes of an item at most
\* status, lastUpdated and the attributes passed in additional_data: assetId,
\* perceptualHash, objectKey and timestamp stay as registered.
C14_UpdateFrame ==
  [][\A w \in Workers :
       wrk'[w] # wrk[w] =>
         \A a \in DOMAIN ledger :
           /\ a \in DOMAIN ledger'
           /\ Changed(a) \subseteq {"status", "lastUpdated"} \cup AdditionalData(w)]_vars

\* C14 witness: a registered item was taken to COMPLETED by the worker's
\* updates and still carries the fingerprint and the key of its registration.
C14_Witness ==
  \E a \in DOMAIN ledger :
    /\ Registered(a)
    /\ ledger[a].status = "COMPLETED" /\ ledger[a].lastUpdated = 1
    /\ ledger[a].watermarkedKey # Absent
    /\ ledger[a].assetId = a
    /\ ledger[a].perceptualHash = reg[ledger[a].timestamp].hash
    /\ ledger[a].objectKey = reg[ledger[a].timestamp].key

Statuses ==
  {"REGISTERED", "DUPLICATE_DETECTED", "WATERMARKING", "COMPLETED", "FAILED"}

\* C15: the status of every item is one of REGISTERED, DUPLICATE_DETECTED,
\* WATERMARKING, COMPLETED, FAILED.
C15_StatusInEnumeration ==
  \A a \in DOMAIN ledger : ledger[a].status \in Statuses

\* ============================================================ lookup claims
\* the lookup of handler h answers 200 from its scan in this step, no fault
ScanStep(h) ==
  /\ ver.handler = h /\ ver.pc = "scan" /\ ver'.pc = "done"
  /\ faults' = faults

\* the stored items the duplicate detector counts as candidates for q
DupCandidates(q) ==
  {a \in DOMAIN ledger :
     /\ SameShape(q, ledger[a].perceptualHash)
     /\ XorCount(q, ledger[a].perceptualHash) <= DuplicateThreshold}

\* the stored items verify counts as similar to q
VerifyCandidates(q) ==
  {a \in DOMAIN ledger : IsSimilar(XorCount(q, ledger[a].perceptualHash))}

\* C16: when no stored fingerprint equals the query, the scan of the duplicate
\* detector returned the whole table and several stored fingerprints are within
\* the threshold, the existingAsset has the least Hamming distance to the query
\* of all of them, in every scan order.
C16_DupReturnsNearest ==
  [][( /\ ScanStep("duplicate_check_handler")
       /\ ver'.stable /\ QueryByHash(ver.hash) = {}
       /\ ver'.scanned = Cardinality(DOMAIN ledger)
       /\ Cardinality(DupCandidates(ver.hash)) >= 2 )
     => /\ ver'.resp.match
        /\ \A a \in DupCandidates(ver.hash) :
             ver'.resp.hammingDistance
               <= XorCount(ver.hash, ledger[a].perceptualHash)]_vars

\* C17: the approximate phase of either handler reports a match whenever some
\* stored item is within the handler's threshold, however the scan is paged.
C17_ScanExaminesEveryRecord ==
  [][/\ ( ScanStep("duplicate_check_handler") /\ DupCandidates(ver.hash) # {}
            => ver'.resp.match )
     /\ ( ScanStep("verification_handler") /\ VerifyCandidates(ver.hash) # {}
            => ver'.resp.match )]_vars

\* C18: when no stored fingerprint equals q and some stored fingerprint is
\* within the threshold of q, verify answers isAuthentic with matchType similar,
\* the record at the least distance d of all stored records, and confidence
\* 1 - d/256, which is above the threshold's 0.85.
C18_VerifySimilarIsNearest ==
  [][( /\ ScanStep("verification_handler")
       /\ QueryByHash(ver.hash) = {}
       /\ VerifyCandidates(ver.hash) # {} )
     => /\ ver'.resp.match /\ ver'.resp.matchType = "similar"
        /\ ver'.resp.assetId \in DOMAIN ledger
        /\ ver'.resp.hammingDistance
             = XorCount(ver.hash, ledger[ver'.resp.assetId].perceptualHash)
        /\ \A a \in DOMAIN ledger :
             ver'.resp.hammingDistance
               <= XorCount(ver.hash, ledger[a].perceptualHash)
        /\ ver'.resp.confidence = HashBits - ver'.resp.hammingDistance
        /\ ver'.resp.confidence * 100 > SimilarityPercent * HashBits]_vars

\* verify answers a match in this step
VerifyMatches ==
  /\ ver.handler = "verification_handler"
  /\ ver.pc \in {"query", "scan"} /\ ver'.pc = "done"
  /\ ver'.resp.match

\* C19: verify answers matchType exact exactly for a matched record at Hamming
\* distance 0 and similar only for a distance above 0, also when a
\* registration of the query's fingerprint commits between query and scan.
C19_MatchTypeFollowsDistance ==
  [][VerifyMatches =>
       LET d == XorCount(ver.hash, ledger[ver'.resp.assetId].perceptualHash)
       IN  /\ ver'.resp.matchType = "exact" <=> d = 0
           /\ ver'.resp.matchType = "similar" => d > 0]_vars

\* C20: the duplicate detector, answering from a table that did not change
\* during the lookup, reports a match if and only if verify does for the same
\* image on that table, and both name the same asset.
C20_DetectorAgreesWithVerify ==
  [][( /\ ver.handler = "duplicate_check_handler"
       /\ ver.pc \in {"query", "scan"} /\ ver'.pc = "done"
       /\ faults' = faults /\ ver'.stable )
     => \A r \in VerifyResponses(ver.image) :
          /\ r.match <=> ver'.resp.match
          /\ r.match => r.assetId = ver'.resp.assetId]_vars

\* =========================================== frame and failure claims
\* a request of the development server is served by the given route
ServedBy(route) == http'.n # http.n /\ http'.route = route

\* C21: a verify request, whatever its input form (file, hash, objectKey,
\* assetId), adds, changes and removes no record: the development server's
\* /verify leaves mock_assets as it was, and a step of verification_handler
\* leaves the assets table as it was.
C21_VerifyIsReadOnly ==
  [][/\ ServedBy("verify_asset") => mock_assets' = mock_assets
     /\ ver' # ver => ledger' = ledger]_vars

\* the exact-duplicate query of registration r fails in this step
QueryFails(r) ==
  reg[r].pc = "query" /\ faults' # faults /\ reg'[r] # reg[r]

\* the scan of verify fails in this step
ScanFails ==
  /\ ver.pc = "scan" /\ ver.handler = "verification_handler"
  /\ faults' # faults /\ ver' # ver

\* C22: a failure of the ledger is reported to the caller: a registration
\* whose duplicate query fails ends with the error and does not go on to the
\* insert, and a verify whose scan fails answers with an error, not with
\* "not authentic".
C22_LedgerFailureIsReported ==
  [][/\ \A r \in Regs : QueryFails(r) => reg'[r].pc = "raised"
     /\ ScanFails => ver'.resp.statusCode >= 500]_vars

\* C23: when the fingerprint of an upload cannot be computed (its file is
\* missing or is not decoded), complete_upload ends with an error, creates no
\* asset record and changes no other state.
C23_NoFingerprintNoRecord ==
  [][(/\ ServedBy("complete_upload")
      /\ \A u \in DOMAIN mock_uploads : ~Decodable(u))
       => /\ http'.code >= 400
          /\ mock_assets' = mock_assets
          /\ mock_uploads' = mock_uploads]_vars

\* C24: a job is in the queue only for an assetId that is in the ledger, and
\* every registration that returned REGISTERED has sent its job (no worker
\* takes jobs from the queue in the registrations' specification).
C24_JobFollowsInsert ==
  /\ \A m \in DOMAIN queue : queue[m].assetId \in DOMAIN ledger
  /\ \A r \in Regs :
       Done(r) /\ reg[r].status = "REGISTERED" => r \in DOMAIN queue

\* write_to_ledger r stored its record and then failed
SendFailed(r) ==
  /\ reg[r].pc = "raised"
  /\ reg[r].assetId \in DOMAIN ledger
  /\ ledger[reg[r].assetId].timestamp = r

\* no message of the queue and no attempt of a worker names assetId a
NoJobFor(a) ==
  /\ \A m \in DOMAIN queue : queue[m].assetId # a
  /\ \A w \in Workers : wrk[w].assetId # a

\* C25: when the send of the job fails after the insert, the insert is not
\* rolled back (the step changes neither the ledger nor the queue and leaves
\* the record in it), and as long as no job names the record no step changes
\* it: it stays as registered.
C25_SendFailureKeepsRecord ==
  [][\A r \in Regs :
       /\ (reg[r].pc = "send" /\ reg'[r].pc = "raised")
            => /\ ledger' = ledger /\ queue' = queue
               /\ reg[r].assetId \in DOMAIN ledger
       /\ (SendFailed(r) /\ NoJobFor(reg[r].assetId))
            => ledger'[reg[r].assetId] = ledger[reg[r].assetId]]_vars

\* the send failed, the record is still REGISTERED with no job naming it, and
\* meanwhile a worker has processed the job of another asset
C25_Witness ==
  \E r \in Regs :
    /\ SendFailed(r) /\ NoJobFor(reg[r].assetId)
    /\ ledger[reg[r].assetId] = WtlItem(r)
    /\ r \notin DOMAIN queue /\ r \notin dlq
    /\ jobs = MaxJobs /\ blobs # <<>> /\ queue = <<>>

\* C26: when an attempt of main-new.py ends after another attempt of the same
\* job has acknowledged it (the job left the queue while this attempt ran)
\* and no attempt of the job is left, the record's status is COMPLETED, also
\* when this attempt failed.
C26_OverlappingAttemptsConverge ==
  [][\A w \in Workers :
       (/\ impl = "main_new"
        /\ wrk[w].msg # 0 /\ wrk[w].pc # "poll" /\ wrk'[w].pc = "poll"
        /\ wrk[w].msg \notin DOMAIN queue /\ wrk[w].msg \notin dlq
        /\ "update" \notin wrk[w].failed
        /\ \A v \in Workers \ {w} : wrk[v].msg # wrk[w].msg)
         => /\ wrk[w].assetId \in DOMAIN ledger'
            /\ ledger'[wrk[w].assetId].status = "COMPLETED"]_vars

\* every job sent so far has left the queue and no worker is at work
Quiescent ==
  /\ queue = <<>>
  /\ \A w \in Workers : wrk[w].pc = "poll"

\* a job naming a passed the worker's validation: its output was uploaded
Processed(a) == \E key \in DOMAIN blobs : blobs[key].assetId = a

\* a job of write_to_ledger naming a was dead-lettered
Rejected(a) == \E r \in dlq \cap Regs : reg[r].assetId = a

\* The outcomes of a single worker, which runs the attempts one after the
\* other in some order: main.py leaves every record as registered; with
\* main-new.py the last attempt decides, COMPLETED after a processed job,
\* FAILED after a rejected one, and the processed reference is the key of
\* the uploaded output.
SingleWorkerStatuses(a) ==
  IF impl = "main" THEN {"REGISTERED"}
  ELSE {st \in {"COMPLETED"} : Processed(a)}
         \cup {st \in {"FAILED"} : Rejected(a)}
         \cup {st \in {"REGISTERED"} : ~Processed(a) /\ ~Rejected(a)}

SingleWorkerRefs(a) ==
  IF impl = "main_new" /\ Processed(a)
    THEN {key \in DOMAIN blobs : blobs[key].assetId = a}
    ELSE {Absent}

StoredByRegistration ==
  {f \in DOMAIN mock_assets :
     mock_assets[f].filename # "" \/ mock_assets[f].status = "registered"}

\* C28: no asset record is removed or replaced: a record with the assetId and
\* the fingerprint of every record of the ledger is in the ledger after every
\* step, in the development server's ledger (after a registration or a
\* ledger addition; the writes of /verify are C21's) and in the assets table.
C28_RecordsAreKept ==
  [][/\ ~ServedBy("verify_asset") =>
          \A f \in StoredByRegistration :
            \E g \in DOMAIN mock_assets' :
              /\ mock_assets'[g].assetId = mock_assets[f].assetId
              /\ mock_assets'[g].perceptualHash = mock_assets[f].perceptualHash
     /\ \A a \in DOMAIN ledger :
          /\ a \in DOMAIN ledger'
          /\ ledger'[a].perceptualHash = ledger[a].perceptualHash]_vars

\* the status of the record of assetId a, Absent without a record
StatusOf(a) == IF a \in DOMAIN ledger THEN ledger[a].status ELSE Absent

\* message m of the queue is the job of the registered record a
Enqueued(m, a) ==
  /\ m \in DOMAIN queue /\ queue[m].assetId = a
  /\ a \in DOMAIN ledger /\ Registered(a)

\* C29: under fair scheduling of the workers and of redelivery, the record of
\* every enqueued job eventually is COMPLETED or FAILED: it does not stay
\* REGISTERED or WATERMARKING forever.
C29_JobIsSettled ==
  \A m \in 1..(NumReg + MaxJobs), a \in JobAssetIds :
    Enqueued(m, a) ~> (StatusOf(a) \in {"COMPLETED", "FAILED"})

\* C30: COMPLETED is terminal: once a registered record is COMPLETED no step
\* changes its status.
C30_CompletedIsTerminal ==
  [][\A a \in DOMAIN ledger :
       Registered(a) /\ ledger[a].status = "COMPLETED"
         => a \in DOMAIN ledger' /\ ledger'[a].status = "COMPLETED"]_vars

\* ============================================ claims on the parts' contracts
\* the scan of this step returned the whole table, unchanged since the query
WholeTable ==
  ver'.stable /\ ver'.scanned = Cardinality(DOMAIN ledger)

\* the stored items with a fingerprint that verify counts as similar to q
ProperCandidates(q) ==
  {a \in VerifyCandidates(q) : ledger[a].perceptualHash # NoHash}

\* C31: a record without perceptualHash does not prevent a match: when the
\* scan returned the whole table and a stored fingerprint is within the
\* threshold of the query, verify reports a match, and so does the duplicate
\* detector, whatever other records the table holds.
C31_InvalidHashIsSkipped ==
  [][/\ ( /\ ScanStep("verification_handler") /\ WholeTable
          /\ ProperCandidates(ver.hash) # {} ) => ver'.resp.match
     /\ ( /\ ScanStep("duplicate_check_handler") /\ WholeTable
          /\ DupCandidates(ver.hash) # {} ) => ver'.resp.match]_vars

\* C32: a job message produced by write_to_ledger passes the worker's
\* required-field validation: no worker thread that holds a message sent by
\* a registration has failed to parse it.
C32_RegistrationJobIsWellFormed ==
  \A w \in Workers :
    wrk[w].msg \in Regs => "parse" \notin wrk[w].failed

\* the upload URLs issued with status 200
Issued == {n \in DOMAIN presigned : presigned[n].statusCode = 200}

\* C33: the assetId returned with an upload URL is the assetId of the record
\* that ledger_handler stores for the object key of that URL, and an
\* invocation of ledger_handler uses a fresh uuid only for an object key
\* without a second path segment.
C33_IssuedAssetIdIsStored ==
  /\ \A n \in Issued, a \in DOMAIN ledger :
       ledger[a].objectKey = presigned[n].objectKey => a = presigned[n].assetId
  /\ \A r \in Regs :
       reg[r].handler = "ledger_handler" /\ reg[r].assetId = Uuid(r)
         => Len(SplitSlash(reg[r].key)) < 2

\* records are stored for an upload URL whose filename has a directory and
\* for an object key without directory
C33_Witness ==
  /\ \E n \in Issued :
       /\ Len(presigned[n].objectKey.dirs) > 2
       /\ presigned[n].assetId \in DOMAIN ledger
       /\ ledger[presigned[n].assetId].objectKey = presigned[n].objectKey
  /\ \E r \in Regs : Uuid(r) \in DOMAIN ledger

\* the ids of the messages and the receipt handles a message can get
MessageIds == 1..(NumReg + MaxJobs)
Handles == 1..MaxReceive

\* the task of message m received with handle h waits in the pool or is run
Submitted(m, h) ==
  \/ \E t \in poller.tasks : t.msg = m /\ t.handle = h
  \/ \E w \in Workers : wrk[w].msg = m /\ wrk[w].handle = h

\* receive_message raised, or process_file raised in a pool thread, or a call
\* of process_message failed
ErrorSeen ==
  \/ poller.pc = "sleep"
  \/ \E w \in Workers : wrk[w].pc = "except" \/ wrk[w].failed # {}

\* the receipt handle h of message m was used for its delete, if no call failed
Acknowledged(m, h) ==
  \/ m \notin DOMAIN queue
  \/ queue[m].rc # h
  \/ ~(RequiredFields \subseteq queue[m].fields)
  \/ faults > 0

\* C34: an error never stops the poll loop nor the rest of the batch: after a
\* polling or processing error the main thread is again at its receive call
\* unless shutdown was requested, and every task submitted to the pool is run
\* to its end, a well-formed message being deleted when no call failed.
C34_ErrorsDoNotStopTheLoop ==
  /\ ErrorSeen ~> (poller.pc \in {"poll", "stopped"})
  /\ \A m \in MessageIds, h \in Handles :
       Submitted(m, h) ~> (~Submitted(m, h) /\ Acknowledged(m, h))

\* a batch of two messages is waited for, process_file has raised for one of
\* them, and the other was processed and deleted with its first handle
C34_Witness ==
  /\ poller.pc = "wait" /\ Cardinality(poller.futures) = 2
  /\ \E w \in Workers, t \in poller.futures :
       /\ wrk[w].pc = "except"
       /\ t.msg # wrk[w].msg /\ t.handle = 1 /\ FutureDone(t)
       /\ t.msg \notin DOMAIN queue \cup dlq
       /\ Processed(t.assetId)
====
